---- MODULE Spec2Model ----
(***************************************************************************)
(* Model of the memory-hierarchy simulator of src/simulator.py: a 64 KB    *)
(* main memory, a page table filled on demand, a 16-entry FIFO TLB and a   *)
(* 64-line direct-mapped cache, driven by translate_address and            *)
(* reset_simulator.  The class MemorySimulator of src/gui_viewer.py is a   *)
(* copy of the same functions.                                             *)
(***************************************************************************)
EXTENDS Integers, Sequences, FiniteSets, TLC

(***************************************************************************)
(* Configuration (src/simulator.py:5-10, 33-35)                            *)
(***************************************************************************)
MEMORY_SIZE == 65536
PAGE_SIZE == 256
TLB_SIZE == 16
CACHE_SIZE == 64
CACHE_LINE_SIZE == 8
NUM_PAGES == MEMORY_SIZE \div PAGE_SIZE

\* int.bit_length(): the number of bits needed to write n >= 0 in binary.
RECURSIVE bit_length(_)
bit_length(n) == IF n = 0 THEN 0 ELSE 1 + bit_length(n \div 2)

\* The operators >> and & of Python on non-negative integers.
RECURSIVE Pow2(_)
Pow2(k) == IF k = 0 THEN 1 ELSE 2 * Pow2(k - 1)

ShiftRight(a, k) == a \div Pow2(k)

RECURSIVE BitAnd(_, _)
BitAnd(a, b) ==
    IF a = 0 \/ b = 0 THEN 0
    ELSE (a % 2) * (b % 2) + 2 * BitAnd(a \div 2, b \div 2)

CACHE_OFFSET_BITS == bit_length(CACHE_LINE_SIZE - 1)
CACHE_INDEX_BITS == bit_length(CACHE_SIZE - 1)
CACHE_TAG_BITS == 16 - CACHE_INDEX_BITS - CACHE_OFFSET_BITS

(***************************************************************************)
(* Bounds of the model                                                     *)
(***************************************************************************)
\* Number of images the random initial memory is drawn from.
NumSeeds == 2
\* Translate calls the free driver makes between two resets.
MaxAccesses == 4
\* Pages the sweeping driver walks through, in ascending order from page 0.
SweepPages == 17
\* Translate calls the sweeping driver makes to pages it has already visited.
SweepExtra == 3

Seeds == 0 .. (NumSeeds - 1)

\* One byte of the image drawn for seed: random.randint(0, 255) per cell.
\* Seed 0 is all 255; the others vary with the address.
RandomByte(seed, a) == (255 + seed * 155 + a * seed * 3) % 256

\* Virtual addresses the free driver draws from: three pages, of which the
\* first and third to fault share cache lines, and offsets in two cache
\* lines of the page and at both ends of it.
FreePages == {0, 1, 255}
FreeOffsets == {0, 7, 255}
FreeAddrs == {p * 256 + o : p \in FreePages, o \in FreeOffsets}

\* Virtual addresses the sweeping driver returns to.
ProbeAddrs == {0, 263}

VARIABLES
    main_memory,   \* bytearray of MEMORY_SIZE cells, kept as the image it
                   \* was created with and the page loads made since; its
                   \* cells are read with MemRead
    page_table,    \* dict page_num -> frame_num
    tlb,           \* dict page_num -> frame_num
    tlb_queue,     \* deque of page numbers, oldest first
    cache,         \* list of CACHE_SIZE lines {tag, data, valid, dirty}
    stats,         \* dict of the six counters
    error,         \* exception raised by the last call, "none" if it returned
    result,        \* value returned by the last translate_address
    op,            \* the last call: "init", "translate" or "reset"
    calls,         \* translate calls since creation or the last reset
    faults,        \* history: the pages handle_page_fault was called for
    tlb_history,   \* history: the pages put into the tlb dict, in order
    translated,    \* history: the page numbers translate_address was called
                   \* for since creation or the last reset
    gui            \* the MemorySimulator instance of src/gui_viewer.py run
                   \* beside the module and the record its last
                   \* translate_address returned; NoGui where none is created

vars == <<main_memory, page_table, tlb, tlb_queue, cache, stats, error,
          result, op, calls, faults, tlb_history, translated,
          gui>>

\* The program state the functions read and write, as one record.
State ==
    [main_memory |-> main_memory, page_table |-> page_table, tlb |-> tlb,
     tlb_queue |-> tlb_queue, cache |-> cache, stats |-> stats,
     error |-> error, faults |-> faults, tlb_history |-> tlb_history]

Failed(s) == s.error # "none"

\* del d[k]
DictDel(d, k) == [x \in (DOMAIN d) \ {k} |-> d[x]]

\* Variant: the dict is replaced by one holding only the new entry.
DictSetAlone(d, k, v) == [x \in {k} |-> v]

\* d[k] = v
DictSet(d, k, v) == [x \in (DOMAIN d) \cup {k} |-> IF x = k THEN v ELSE d[x]]

\* Variant: a cache miss is not counted.
BumpButMisses(st, counter) ==
    IF counter = "cache_misses" THEN st ELSE [st EXCEPT ![counter] = @ + 1]

\* stats[counter] += 1
Bump(st, counter) == [st EXCEPT ![counter] = @ + 1]

\* bytearray / list indexing: an index at or past the length raises IndexError.
IndexOK(i, len) == i >= 0 /\ i < len

(***************************************************************************)
(* get_cache_components (src/simulator.py:37-42)                           *)
(***************************************************************************)
\* Variant: the index is taken from the low bits, without the shift.
CacheIndexNoShift(physical_addr) == BitAnd(physical_addr, CACHE_SIZE - 1)

CacheIndex(physical_addr) ==
    BitAnd(ShiftRight(physical_addr, CACHE_OFFSET_BITS), CACHE_SIZE - 1)

CacheTag(physical_addr) ==
    ShiftRight(physical_addr, CACHE_OFFSET_BITS + CACHE_INDEX_BITS)

CacheOffset(physical_addr) == BitAnd(physical_addr, CACHE_LINE_SIZE - 1)

get_cache_components(physical_addr) ==
    [tag |-> CacheTag(physical_addr),
     index |-> CacheIndex(physical_addr),
     offset |-> CacheOffset(physical_addr)]

(***************************************************************************)
(* handle_page_fault (src/simulator.py:45-59)                              *)
(***************************************************************************)
\* Variant: frames are numbered from 1.
FreeFrameFromOne(pt) == (Cardinality(DOMAIN pt) + 1) % NUM_PAGES

\* Variant: the frame number wraps at the number of cache lines.
FreeFrameWrapsEarly(pt) == Cardinality(DOMAIN pt) % CACHE_SIZE

\* Variant: frames are given out from the top of the memory downwards.
FreeFrameFromTop(pt) == (NUM_PAGES - 1 - Cardinality(DOMAIN pt)) % NUM_PAGES

\* frame_num = len(page_table) % NUM_PAGES
FreeFrame(pt) == Cardinality(DOMAIN pt) % NUM_PAGES

\* Variant: the pattern leaves out the page number.
PageByteNoPage(page_num, i) == i % 256

\* main_memory[start_addr + i] = (page_num + i) % 256
PageByte(page_num, i) == (page_num + i) % 256

\* The loop over range(PAGE_SIZE): it writes cell after cell and stops with
\* IndexError at the first cell outside the bytearray.  The bytearray is kept
\* as the image it was created with and the page loads made since, each one
\* the run of cells it wrote: count cells from start_addr, cell start_addr + i
\* holding PageByte(page_num, i).
CellsWritten(start_addr) ==
    IF start_addr >= MEMORY_SIZE THEN 0
    ELSE IF start_addr + PAGE_SIZE <= MEMORY_SIZE THEN PAGE_SIZE
    ELSE MEMORY_SIZE - start_addr

LoadPage(mem, start_addr, page_num) ==
    [mem EXCEPT !.loads =
        Append(@, [start_addr |-> start_addr, page_num |-> page_num,
                   count |-> CellsWritten(start_addr)])]

\* main_memory[a]: the cell as the last load covering it left it, or as the
\* image has it when no load covers it.
MemRead(mem, a) ==
    LET covering == {k \in 1 .. Len(mem.loads) :
                        /\ a >= mem.loads[k].start_addr
                        /\ a < mem.loads[k].start_addr + mem.loads[k].count}
    IN  IF covering = {}
        THEN RandomByte(mem.seed, a)
        ELSE LET last == CHOOSE k \in covering : \A j \in covering : j <= k
             IN  PageByte(mem.loads[last].page_num,
                          a - mem.loads[last].start_addr)

handle_page_fault(s, page_num) ==
    LET st1 == Bump(s.stats, "page_faults")
        frame_num == FreeFrame(s.page_table)
        start_addr == frame_num * PAGE_SIZE
        mem1 == LoadPage(s.main_memory, start_addr, page_num)
        fits == IndexOK(start_addr + PAGE_SIZE - 1, MEMORY_SIZE)
    IN  IF fits
        THEN [state |-> [s EXCEPT !.stats = st1, !.main_memory = mem1,
                                  !.page_table =
                                      DictSet(s.page_table, page_num, frame_num),
                                  !.faults = Append(@, page_num)],
              frame_num |-> frame_num]
        ELSE [state |-> [s EXCEPT !.stats = st1, !.main_memory = mem1,
                                  !.error = "IndexError",
                                  !.faults = Append(@, page_num)],
              frame_num |-> frame_num]

(***************************************************************************)
(* update_tlb (src/simulator.py:61-71)                                     *)
(***************************************************************************)
\* Variant: the TLB counts as full one entry late.
TlbOverFull(t) == Cardinality(DOMAIN t) > TLB_SIZE

\* if len(tlb) >= TLB_SIZE
TlbFull(t) == Cardinality(DOMAIN t) >= TLB_SIZE

\* Variant: the page is not queued.
QueueAppendNothing(q, page_num) == q

\* tlb_queue.append(page_num)
QueueAppend(q, page_num) == Append(q, page_num)

\* Variant: pop() for popleft(), the newest page is taken.
PopRight(q) == [page |-> q[Len(q)], rest |-> SubSeq(q, 1, Len(q) - 1)]

\* tlb_queue.popleft(): the page taken and the queue left.
PopLeft(q) == [page |-> Head(q), rest |-> Tail(q)]

\* Variant: the page number is stored in place of the frame number.
TlbInsertPageAsFrame(s, page_num, frame_num) ==
    [s EXCEPT !.tlb = DictSet(@, page_num, page_num),
              !.tlb_queue = QueueAppend(@, page_num),
              !.tlb_history = Append(@, page_num)]

\* tlb[page_num] = frame_num; tlb_queue.append(page_num)
TlbInsert(s, page_num, frame_num) ==
    [s EXCEPT !.tlb = DictSet(@, page_num, frame_num),
              !.tlb_queue = QueueAppend(@, page_num),
              !.tlb_history = Append(@, page_num)]

update_tlb(s, page_num, frame_num) ==
    IF page_num \in DOMAIN s.tlb
    THEN s
    ELSE IF TlbFull(s.tlb)
    THEN IF s.tlb_queue = <<>>
         THEN [s EXCEPT !.error = "IndexError"]        \* popleft of empty deque
         ELSE LET popped == PopLeft(s.tlb_queue)
                  oldest_page == popped.page
                  s1 == [s EXCEPT !.tlb_queue = popped.rest]
              IN  IF oldest_page \notin DOMAIN s.tlb
                  THEN [s1 EXCEPT !.error = "KeyError"]    \* del of absent key
                  ELSE TlbInsert([s1 EXCEPT !.tlb = DictDel(@, oldest_page)],
                                 page_num, frame_num)
    ELSE TlbInsert(s, page_num, frame_num)

(***************************************************************************)
(* access_cache (src/simulator.py:73-95)                                   *)
(***************************************************************************)
\* Variant: the block starts at the address itself.
BlockStartUnaligned(physical_addr) == physical_addr

\* physical_addr & ~(CACHE_LINE_SIZE - 1): clears the bits of the mask.
BlockStart(physical_addr) ==
    physical_addr - BitAnd(physical_addr, CACHE_LINE_SIZE - 1)

\* if cache_line['valid'] and cache_line['tag'] == tag
CacheLineHit(line, tag) == line.valid /\ line.tag = tag

\* Variant: the copy reads one cell too far.
FillDataShifted(mem, data, block_start) ==
    [i \in DOMAIN data |-> MemRead(mem, block_start + i + 1)]

\* The loop over range(CACHE_LINE_SIZE) copying the block into the line.
FillData(mem, data, block_start) ==
    [i \in DOMAIN data |->
        IF IndexOK(block_start + i, MEMORY_SIZE)
        THEN MemRead(mem, block_start + i) ELSE data[i]]

\* Variant: the filled line is not marked valid.
FilledLineNotValid(tag, data) ==
    [tag |-> tag, data |-> data, valid |-> FALSE, dirty |-> FALSE]

\* The line after the fill: tag set, valid, not dirty.
FilledLine(tag, data) ==
    [tag |-> tag, data |-> data, valid |-> TRUE, dirty |-> FALSE]

access_cache(s, physical_addr) ==
    LET c == get_cache_components(physical_addr)
    IN  IF ~IndexOK(c.index, CACHE_SIZE)
        THEN [state |-> [s EXCEPT !.error = "IndexError"],
              value |-> -1, hit |-> FALSE]
        ELSE
        LET cache_line == s.cache[c.index]
        IN  IF CacheLineHit(cache_line, c.tag)
            THEN [state |-> [s EXCEPT !.stats = Bump(@, "cache_hits")],
                  value |-> cache_line.data[c.offset], hit |-> TRUE]
            ELSE
            LET block_start == BlockStart(physical_addr)
                data1 == FillData(s.main_memory, cache_line.data, block_start)
                fits == IndexOK(block_start + CACHE_LINE_SIZE - 1, MEMORY_SIZE)
                        /\ IndexOK(block_start, MEMORY_SIZE)
                s1 == [s EXCEPT !.stats = Bump(@, "cache_misses")]
            IN  IF fits
                THEN [state |-> [s1 EXCEPT !.cache[c.index] =
                                    FilledLine(c.tag, data1)],
                      value |-> data1[c.offset], hit |-> FALSE]
                ELSE [state |-> [s1 EXCEPT !.cache[c.index].data = data1,
                                           !.error = "IndexError"],
                      value |-> -1, hit |-> FALSE]

(***************************************************************************)
(* translate_address (src/simulator.py:97-150)                             *)
(***************************************************************************)
\* Variant: the page number is masked to 7 bits.
PageNumSevenBits(virtual_addr) == BitAnd(ShiftRight(virtual_addr, 8), 127)

\* page_num = (virtual_addr >> 8) & 0xFF
PageNum(virtual_addr) == BitAnd(ShiftRight(virtual_addr, 8), 255)

\* offset = virtual_addr & 0xFF
PageOffset(virtual_addr) == BitAnd(virtual_addr, 255)

\* Variant: the address falls into the frame after the page's.
PhysicalAddrNextFrame(frame_num, offset) ==
    ((frame_num + 1) * PAGE_SIZE) + offset

\* physical_addr = (frame_num * PAGE_SIZE) + offset
PhysicalAddr(frame_num, offset) == (frame_num * PAGE_SIZE) + offset

NoResult ==
    [virtual_addr |-> -1, physical_addr |-> -1, value |-> -1,
     page_num |-> -1, frame_num |-> -1, tlb_hit |-> FALSE,
     cache_hit |-> FALSE, log |-> <<>>]

\* Variant: the page table is not consulted, every TLB miss is a fault.
NeverInPageTable(pt, page_num) == FALSE

\* if page_num in page_table
InPageTable(pt, page_num) == page_num \in DOMAIN pt

\* Variant: the TLB update is logged before the page-table outcome.
MissLogUpdateFirst(page_num, frame_num, hitPT) ==
    << <<"TLB MISS", page_num>>,
       <<"TLB UPDATE", page_num, frame_num>>,
       IF hitPT
       THEN <<"PAGE TABLE HIT", frame_num>>
       ELSE <<"PAGE FAULT", page_num, frame_num>> >>

\* The log entries appended on a TLB miss, in the order of the appends; an
\* entry is the kind of the message and the numbers formatted into it.
MissLog(page_num, frame_num, hitPT) ==
    << <<"TLB MISS", page_num>>,
       IF hitPT
       THEN <<"PAGE TABLE HIT", frame_num>>
       ELSE <<"PAGE FAULT", page_num, frame_num>>,
       <<"TLB UPDATE", page_num, frame_num>> >>

\* Variant: a hit moves the page to the back of the queue (LRU).
TlbHitMovesToBack(s, page_num) ==
    [s EXCEPT !.stats = [@ EXCEPT !.tlb_hits = @ + 1],
              !.tlb_queue =
                  SelectSeq(@, LAMBDA x : x # page_num) \o <<page_num>>]

\* The TLB-hit branch: stats['tlb_hits'] += 1 and nothing else.
TlbHit(s, page_num) == [s EXCEPT !.stats = Bump(@, "tlb_hits")]

\* Steps 1 to 3: the TLB, the page table and the fault handler.  Returns the
\* state, the frame number, the TLB flag and the log written so far.
LookupFrame(s, page_num) ==
    IF page_num \in DOMAIN s.tlb
    THEN LET frame_num == s.tlb[page_num]
         IN  [state |-> TlbHit(s, page_num),
              frame_num |-> frame_num, tlb_hit |-> TRUE,
              log |-> << <<"TLB HIT", page_num, frame_num>> >>]
    ELSE LET s1 == [s EXCEPT !.stats = Bump(@, "tlb_misses")]
             hitPT == InPageTable(s1.page_table, page_num)
             pf == handle_page_fault(s1, page_num)
             s2 == IF hitPT THEN s1 ELSE pf.state
             frame_num == IF hitPT THEN s1.page_table[page_num]
                          ELSE pf.frame_num
             s3 == IF Failed(s2) THEN s2
                   ELSE update_tlb(s2, page_num, frame_num)
         IN  [state |-> s3, frame_num |-> frame_num, tlb_hit |-> FALSE,
              log |-> MissLog(page_num, frame_num, hitPT)]

\* The whole call: the state it leaves and the record it returns.
translate_address(s, virtual_addr) ==
    LET s0 == [s EXCEPT !.stats = Bump(@, "total_accesses"),
                        !.error = "none"]
        page_num == PageNum(virtual_addr)
        offset == PageOffset(virtual_addr)
        lk == LookupFrame(s0, page_num)
        physical_addr == PhysicalAddr(lk.frame_num, offset)
        ca == access_cache(lk.state, physical_addr)
    IN  IF Failed(lk.state)
        THEN [state |-> lk.state, result |-> NoResult]
        ELSE IF Failed(ca.state)
        THEN [state |-> ca.state, result |-> NoResult]
        ELSE [state |-> ca.state,
              result |->
                [virtual_addr |-> virtual_addr,
                 physical_addr |-> physical_addr,
                 value |-> ca.value,
                 page_num |-> page_num,
                 frame_num |-> lk.frame_num,
                 tlb_hit |-> lk.tlb_hit,
                 cache_hit |-> ca.hit,
                 log |-> lk.log
                         \o << <<"Physical Address", physical_addr>> >>
                         \o << IF ca.hit
                               THEN <<"CACHE HIT", ca.value>>
                               ELSE <<"CACHE MISS", ca.value>> >>]]

(***************************************************************************)
(* Module initialisation (src/simulator.py:13-30) and reset_simulator      *)
(* (src/simulator.py:169-182)                                              *)
(***************************************************************************)
\* bytearray([random.randint(0, 255) for _ in range(MEMORY_SIZE)])
RandomMemory(seed) == [seed |-> seed, loads |-> <<>>]

EmptyDict == [x \in {} |-> 0]

EmptyLine ==
    [tag |-> -1, data |-> [i \in 0 .. (CACHE_LINE_SIZE - 1) |-> 0],
     valid |-> FALSE, dirty |-> FALSE]

EmptyCache == [i \in 0 .. (CACHE_SIZE - 1) |-> EmptyLine]

ZeroStats ==
    [tlb_hits |-> 0, tlb_misses |-> 0, cache_hits |-> 0, cache_misses |-> 0,
     page_faults |-> 0, total_accesses |-> 0]

\* Variant: the FIFO queue is not cleared.
reset_keeping_queue(s, seed) ==
    [s EXCEPT !.main_memory = [seed |-> seed, loads |-> <<>>],
              !.page_table = [x \in {} |-> 0],
              !.tlb = [x \in {} |-> 0],
              !.cache = [i \in 0 .. (CACHE_SIZE - 1) |->
                            [tag |-> -1,
                             data |-> [k \in 0 .. (CACHE_LINE_SIZE - 1) |-> 0],
                             valid |-> FALSE, dirty |-> FALSE]],
              !.stats = [tlb_hits |-> 0, tlb_misses |-> 0, cache_hits |-> 0,
                         cache_misses |-> 0, page_faults |-> 0,
                         total_accesses |-> 0],
              !.error = "none", !.faults = <<>>, !.tlb_history = <<>>]

\* The state reset_simulator leaves, for the memory image it draws.
reset_simulator(s, seed) ==
    [s EXCEPT !.main_memory = RandomMemory(seed), !.page_table = EmptyDict,
              !.tlb = EmptyDict, !.tlb_queue = <<>>, !.cache = EmptyCache,
              !.stats = ZeroStats, !.error = "none",
              !.faults = <<>>, !.tlb_history = <<>>]

(***************************************************************************)
(* class MemorySimulator (src/gui_viewer.py:6-123).  self is the instance:  *)
(* a record of its constants and of its data structures.  The log strings  *)
(* of the class carry a symbol in front of the kind, written here as       *)
(* [check], [cross] and [siren].                                           *)
(***************************************************************************)
\* No instance of the class exists.
NoGui == [created |-> FALSE]

\* reset_simulator(self): the data structures are made anew, the constants
\* stay.
gui_reset_simulator(self, seed) ==
    [MEMORY_SIZE |-> self.MEMORY_SIZE,
     PAGE_SIZE |-> self.PAGE_SIZE,
     TLB_SIZE |-> self.TLB_SIZE,
     CACHE_SIZE |-> self.CACHE_SIZE,
     CACHE_LINE_SIZE |-> self.CACHE_LINE_SIZE,
     NUM_PAGES |-> self.NUM_PAGES,
     main_memory |-> [seed |-> seed, loads |-> <<>>],
     page_table |-> [x \in {} |-> 0],
     tlb |-> [x \in {} |-> 0],
     tlb_queue |-> <<>>,
     cache |-> [k \in 0 .. (self.CACHE_SIZE - 1) |->
                  [tag |-> -1,
                   data |-> [i \in 0 .. (self.CACHE_LINE_SIZE - 1) |-> 0],
                   valid |-> FALSE, dirty |-> FALSE]],
     stats |-> [tlb_hits |-> 0, tlb_misses |-> 0, cache_hits |-> 0,
                cache_misses |-> 0, page_faults |-> 0, total_accesses |-> 0],
     error |-> "none"]

\* __init__(self): the constants, then reset_simulator().
gui_init(seed) ==
    gui_reset_simulator(
        [MEMORY_SIZE |-> 65536, PAGE_SIZE |-> 256, TLB_SIZE |-> 16,
         CACHE_SIZE |-> 64, CACHE_LINE_SIZE |-> 8,
         NUM_PAGES |-> 65536 \div 256],
        seed)

\* Variant: the tag keeps the index bits.
gui_get_cache_components_long_tag(self, physical_addr) ==
    LET offset_bits == bit_length(self.CACHE_LINE_SIZE - 1)
    IN  [tag |-> ShiftRight(physical_addr, offset_bits),
         index |-> BitAnd(ShiftRight(physical_addr, offset_bits),
                          self.CACHE_SIZE - 1),
         offset |-> BitAnd(physical_addr, self.CACHE_LINE_SIZE - 1)]

\* get_cache_components(self, physical_addr): the bit widths are computed
\* in the call.
gui_get_cache_components(self, physical_addr) ==
    LET offset_bits == bit_length(self.CACHE_LINE_SIZE - 1)
        index_bits == bit_length(self.CACHE_SIZE - 1)
    IN  [tag |-> ShiftRight(physical_addr, offset_bits + index_bits),
         index |-> BitAnd(ShiftRight(physical_addr, offset_bits),
                          self.CACHE_SIZE - 1),
         offset |-> BitAnd(physical_addr, self.CACHE_LINE_SIZE - 1)]

\* handle_page_fault(self, page_num): the instance it leaves and the frame
\* it returns.  The loop writes cells start_addr .. start_addr + PAGE_SIZE - 1
\* and stops with IndexError at the first one past the bytearray.
gui_handle_page_fault(self, page_num) ==
    LET stats1 == [self.stats EXCEPT !.page_faults = @ + 1]
        frame_num == Cardinality(DOMAIN self.page_table) % self.NUM_PAGES
        start_addr == frame_num * self.PAGE_SIZE
        written == IF start_addr >= self.MEMORY_SIZE THEN 0
                   ELSE IF start_addr + self.PAGE_SIZE > self.MEMORY_SIZE
                        THEN self.MEMORY_SIZE - start_addr
                        ELSE self.PAGE_SIZE
        memory1 == [self.main_memory EXCEPT !.loads =
                       Append(@, [start_addr |-> start_addr,
                                  page_num |-> page_num,
                                  count |-> written])]
    IN  IF written < self.PAGE_SIZE
        THEN [self |-> [self EXCEPT !.stats = stats1,
                                    !.main_memory = memory1,
                                    !.error = "IndexError"],
              frame_num |-> frame_num]
        ELSE [self |-> [self EXCEPT
                           !.stats = stats1,
                           !.main_memory = memory1,
                           !.page_table =
                               [x \in (DOMAIN @) \cup {page_num} |->
                                   IF x = page_num THEN frame_num ELSE @[x]]],
              frame_num |-> frame_num]

\* update_tlb(self, page_num, frame_num)
gui_update_tlb(self, page_num, frame_num) ==
    IF page_num \in DOMAIN self.tlb
    THEN self
    ELSE
    LET full == Cardinality(DOMAIN self.tlb) >= self.TLB_SIZE
        oldest_page == Head(self.tlb_queue)
        after == IF full
                 THEN [self EXCEPT
                          !.tlb_queue = Tail(@),
                          !.tlb = [x \in (DOMAIN @) \ {oldest_page} |-> @[x]]]
                 ELSE self
    IN  IF full /\ self.tlb_queue = <<>>
        THEN [self EXCEPT !.error = "IndexError"]
        ELSE IF full /\ oldest_page \notin DOMAIN self.tlb
        THEN [self EXCEPT !.tlb_queue = Tail(@), !.error = "KeyError"]
        ELSE [after EXCEPT
                 !.tlb = [x \in (DOMAIN @) \cup {page_num} |->
                             IF x = page_num THEN frame_num ELSE @[x]],
                 !.tlb_queue = Append(@, page_num)]

\* access_cache(self, physical_addr): the instance it leaves, the value and
\* the hit flag it returns.
gui_access_cache(self, physical_addr) ==
    LET c == gui_get_cache_components(self, physical_addr)
        counted(name) == [self EXCEPT !.stats[name] = @ + 1]
    IN  IF c.index < 0 \/ c.index >= self.CACHE_SIZE
        THEN [self |-> [self EXCEPT !.error = "IndexError"],
              value |-> -1, hit |-> FALSE]
        ELSE IF self.cache[c.index].valid /\ self.cache[c.index].tag = c.tag
        THEN [self |-> counted("cache_hits"),
              value |-> self.cache[c.index].data[c.offset], hit |-> TRUE]
        ELSE
        LET block_start ==
                physical_addr - BitAnd(physical_addr, self.CACHE_LINE_SIZE - 1)
            line == [i \in 0 .. (self.CACHE_LINE_SIZE - 1) |->
                        MemRead(self.main_memory, block_start + i)]
        IN  IF block_start < 0
               \/ block_start + self.CACHE_LINE_SIZE > self.MEMORY_SIZE
            THEN [self |-> [counted("cache_misses") EXCEPT
                               !.error = "IndexError"],
                  value |-> -1, hit |-> FALSE]
            ELSE [self |-> [counted("cache_misses") EXCEPT
                               !.cache[c.index] =
                                   [tag |-> c.tag, data |-> line,
                                    valid |-> TRUE, dirty |-> FALSE]],
                  value |-> line[c.offset], hit |-> FALSE]

\* translate_address(self, virtual_addr): the instance it leaves and the
\* record it returns.
gui_translate_address(self, virtual_addr) ==
    LET self0 == [self EXCEPT !.stats.total_accesses = @ + 1,
                              !.error = "none"]
        page_num == BitAnd(ShiftRight(virtual_addr, 8), 255)
        offset == BitAnd(virtual_addr, 255)
        tlb_hit == page_num \in DOMAIN self0.tlb
        in_table == page_num \in DOMAIN self0.page_table
        missed == [self0 EXCEPT !.stats.tlb_misses = @ + 1]
        fault == gui_handle_page_fault(missed, page_num)
        frame_num == IF tlb_hit THEN self0.tlb[page_num]
                     ELSE IF in_table THEN self0.page_table[page_num]
                     ELSE fault.frame_num
        looked == IF in_table THEN missed ELSE fault.self
        self1 == IF tlb_hit THEN [self0 EXCEPT !.stats.tlb_hits = @ + 1]
                 ELSE IF looked.error # "none" THEN looked
                 ELSE gui_update_tlb(looked, page_num, frame_num)
        log1 == IF tlb_hit
                THEN << <<"[check]TLB HIT", page_num, frame_num>> >>
                ELSE << <<"[cross]TLB MISS", page_num>>,
                        IF in_table
                        THEN <<"[check]PAGE TABLE HIT", frame_num>>
                        ELSE <<"[siren]PAGE FAULT", page_num, frame_num>>,
                        <<"TLB UPDATE", page_num, frame_num>> >>
        physical_addr == (frame_num * self.PAGE_SIZE) + offset
        access == gui_access_cache(self1, physical_addr)
    IN  IF self1.error # "none"
        THEN [self |-> self1, result |-> NoResult]
        ELSE IF access.self.error # "none"
        THEN [self |-> access.self, result |-> NoResult]
        ELSE [self |-> access.self,
              result |->
                [virtual_addr |-> virtual_addr,
                 physical_addr |-> physical_addr,
                 value |-> access.value,
                 page_num |-> page_num,
                 frame_num |-> frame_num,
                 tlb_hit |-> tlb_hit,
                 cache_hit |-> access.hit,
                 log |-> log1
                         \o << <<"Physical Address", physical_addr>> >>
                         \o << IF access.hit
                               THEN <<"[check]CACHE HIT", access.value>>
                               ELSE <<"[cross]CACHE MISS", access.value>> >>]]

(***************************************************************************)
(* Actions                                                                 *)
(***************************************************************************)
Install(s) ==
    /\ main_memory' = s.main_memory
    /\ page_table' = s.page_table
    /\ tlb' = s.tlb
    /\ tlb_queue' = s.tlb_queue
    /\ cache' = s.cache
    /\ stats' = s.stats
    /\ error' = s.error
    /\ faults' = s.faults
    /\ tlb_history' = s.tlb_history

Init ==
    \E seed \in Seeds :
        /\ main_memory = RandomMemory(seed)
        /\ page_table = EmptyDict
        /\ tlb = EmptyDict
        /\ tlb_queue = <<>>
        /\ cache = EmptyCache
        /\ stats = ZeroStats
        /\ error = "none"
        /\ result = NoResult
        /\ op = "init"
        /\ calls = 0
        /\ faults = <<>>
        /\ tlb_history = <<>>
        /\ translated = {}
        /\ gui = NoGui

\* One call translate_address(virtual_addr).
Translate(virtual_addr) ==
    LET r == translate_address(State, virtual_addr)
    IN  /\ Install(r.state)
        /\ result' = r.result
        /\ op' = "translate"
        /\ calls' = calls + 1
        /\ translated' = translated \cup {(virtual_addr \div 256) % 256}

\* One call reset_simulator().
Reset ==
    /\ \E seed \in Seeds : Install(reset_simulator(State, seed))
    /\ result' = NoResult
    /\ op' = "reset"
    /\ calls' = 0
    /\ translated' = {}
    /\ UNCHANGED gui

\* The free driver: any of FreeAddrs, in any order.
TranslateFree ==
    /\ calls < MaxAccesses
    /\ \E v \in FreeAddrs : Translate(v)
    /\ UNCHANGED gui

Next == TranslateFree \/ Reset

Spec == Init /\ [][Next]_vars

\* The sweeping driver: it visits the pages not yet loaded in ascending
\* order, each at its first byte, and before, between and after them may
\* translate one of ProbeAddrs; a probe that faults does not count as extra.
SweepPage ==
    CHOOSE p \in 0 .. NUM_PAGES :
        /\ p \notin DOMAIN page_table
        /\ \A q \in 0 .. (p - 1) : q \in DOMAIN page_table

TranslateSweep ==
    /\ SweepPage < SweepPages
    /\ Translate(SweepPage * 256)
    /\ UNCHANGED gui

TranslateProbe ==
    /\ calls - Cardinality(DOMAIN page_table) < SweepExtra
    /\ \E v \in ProbeAddrs : Translate(v)
    /\ UNCHANGED gui

NextSweep == TranslateSweep \/ TranslateProbe \/ Reset

SpecSweep == Init /\ [][NextSweep]_vars

\* The walking driver: it may start with one of ProbeAddrs, then visits the
\* pages not yet loaded in ascending order, each at its first byte, and once
\* all are loaded it translates some of ProbeAddrs.
TranslateBeforeWalk ==
    /\ DOMAIN page_table = {}
    /\ \E v \in ProbeAddrs : Translate(v)
    /\ UNCHANGED gui

TranslateWalk ==
    /\ SweepPage < NUM_PAGES
    /\ Translate(SweepPage * 256)
    /\ UNCHANGED gui

TranslateAfterWalk ==
    /\ SweepPage = NUM_PAGES
    /\ calls - Cardinality(DOMAIN page_table) < SweepExtra
    /\ \E v \in ProbeAddrs : Translate(v)
    /\ UNCHANGED gui

NextWalk ==
    TranslateBeforeWalk \/ TranslateWalk \/ TranslateAfterWalk \/ Reset

SpecWalk == Init /\ [][NextWalk]_vars

\* The pair: the module and a MemorySimulator instance created side by side,
\* each with a memory image of its own, and given the same calls by the
\* sweeping driver.
InitPair ==
    \E seed \in Seeds, gui_seed \in Seeds :
        /\ main_memory = RandomMemory(seed)
        /\ page_table = EmptyDict
        /\ tlb = EmptyDict
        /\ tlb_queue = <<>>
        /\ cache = EmptyCache
        /\ stats = ZeroStats
        /\ error = "none"
        /\ result = NoResult
        /\ op = "init"
        /\ calls = 0
        /\ faults = <<>>
        /\ tlb_history = <<>>
        /\ translated = {}
        /\ gui = [self |-> gui_init(gui_seed), result |-> NoResult]

\* translate_address(virtual_addr) of the module and of the instance.
TranslatePair(virtual_addr) ==
    LET r == gui_translate_address(gui.self, virtual_addr)
    IN  /\ Translate(virtual_addr)
        /\ gui' = [self |-> r.self, result |-> r.result]

\* reset_simulator() of the module and of the instance.
ResetPair ==
    /\ \E seed \in Seeds : Install(reset_simulator(State, seed))
    /\ result' = NoResult
    /\ op' = "reset"
    /\ calls' = 0
    /\ translated' = {}
    /\ \E gui_seed \in Seeds :
          gui' = [self |-> gui_reset_simulator(gui.self, gui_seed),
                  result |-> NoResult]

TranslatePairSweep ==
    /\ SweepPage < SweepPages
    /\ TranslatePair(SweepPage * 256)

TranslatePairProbe ==
    /\ calls - Cardinality(DOMAIN page_table) < SweepExtra
    /\ \E v \in ProbeAddrs : TranslatePair(v)

NextPair == TranslatePairSweep \/ TranslatePairProbe \/ ResetPair

SpecPair == InitPair /\ [][NextPair]_vars

(***************************************************************************)
(* Properties                                                              *)
(***************************************************************************)
Counters ==
    {"tlb_hits", "tlb_misses", "cache_hits", "cache_misses", "page_faults",
     "total_accesses"}

\* A step that is one call of translate_address which returned.
TranslateStep == op' = "translate" /\ error' = "none"

\* Exactly one of the two counters goes up by one, the other stays.
OneOfTwo(a, b) ==
    \/ stats'[a] = stats[a] + 1 /\ stats'[b] = stats[b]
    \/ stats'[a] = stats[a] /\ stats'[b] = stats[b] + 1

C1_Totals ==
    /\ stats.total_accesses = calls
    /\ stats.tlb_hits + stats.tlb_misses = stats.total_accesses
    /\ stats.cache_hits + stats.cache_misses = stats.total_accesses

C1_Step ==
    (op' = "translate") =>
        /\ stats'.total_accesses = stats.total_accesses + 1
        /\ OneOfTwo("tlb_hits", "tlb_misses")
        /\ OneOfTwo("cache_hits", "cache_misses")
        /\ \A c \in Counters : stats'[c] >= stats[c]

\* C1: after N translate calls since creation or the last reset,
\* total_accesses = N = tlb_hits + tlb_misses = cache_hits + cache_misses;
\* every translate call raises total_accesses by one, exactly one of
\* tlb_hits / tlb_misses by one and exactly one of cache_hits / cache_misses
\* by one, and lowers no counter.
C1_StatsConsistent == [](C1_Totals) /\ [][C1_Step]_vars

C1_Witness ==
    /\ calls = 4
    /\ stats.tlb_hits > 0 /\ stats.tlb_misses > 0
    /\ stats.cache_hits > 0 /\ stats.cache_misses > 0

\* C2: the first translate(v) after creation or reset is a TLB miss, a page
\* fault that assigns frame 0 and a cache miss, with physical_addr = v mod
\* 256; for v = 0 it returns value 0 and physical address 0 and leaves
\* cache line 0 valid holding 0, 1, ..., 7.
C2_FirstAccess ==
    (op = "translate" /\ calls = 1) =>
        /\ error = "none"
        /\ ~result.tlb_hit
        /\ ~result.cache_hit
        /\ result.frame_num = 0
        /\ result.physical_addr = result.virtual_addr % 256
        /\ stats.page_faults = 1
        /\ page_table = (result.virtual_addr \div 256) :> 0
        /\ result.virtual_addr = 0 =>
              /\ result.physical_addr = 0
              /\ result.value = 0
              /\ cache[0].valid
              /\ cache[0].data = [k \in 0 .. 7 |-> k]

C2_Witness ==
    /\ op = "translate" /\ calls = 1
    /\ result.virtual_addr = 0
    /\ cache[0].valid

C3_Repeat ==
    (/\ op = "translate" /\ error = "none"
     /\ op' = "translate"
     /\ result'.virtual_addr = result.virtual_addr) =>
        /\ error' = "none"
        /\ result'.tlb_hit
        /\ result'.cache_hit
        /\ result'.frame_num = result.frame_num
        /\ result'.physical_addr = result.physical_addr
        /\ result'.value = result.value
        /\ stats' = [stats EXCEPT !.total_accesses = @ + 1,
                                  !.tlb_hits = @ + 1,
                                  !.cache_hits = @ + 1]
        /\ (calls = 1 /\ result.virtual_addr = 0) =>
              /\ result'.value = 0
              /\ stats'.tlb_hits = 1
              /\ stats'.cache_hits = 1

\* C3: translate(v) called again right after translate(v) is a TLB hit and
\* a cache hit, returns the same frame, physical address and value, and
\* raises only total_accesses, tlb_hits and cache_hits (on a fresh simulator
\* with v = 0: value 0, tlb_hits = 1, cache_hits = 1).
C3_RepeatIsHit == [][C3_Repeat]_vars

C3_Witness ==
    /\ op = "translate" /\ calls = 2
    /\ result.virtual_addr = 0
    /\ result.tlb_hit /\ result.cache_hit
    /\ stats.tlb_hits = 1 /\ stats.cache_hits = 1
    /\ stats.tlb_misses = 1 /\ stats.cache_misses = 1

C4_Step ==
    (op' = "translate") =>
        stats'.page_faults =
            stats.page_faults +
            (IF (result'.virtual_addr \div 256) \in DOMAIN page_table
             THEN 0 ELSE 1)

C4_Once ==
    \A i, j \in 1 .. Len(faults) : faults[i] = faults[j] => i = j

\* C4: a translate call raises page_faults by one when its page is not in
\* the page table and by nothing otherwise, and between two resets no page
\* faults twice, whatever the TLB evicted.
C4_FaultOnce == [](C4_Once) /\ [][C4_Step]_vars

\* Page 0 is back in the TLB after its eviction, and has faulted once.
C4_Witness ==
    /\ op = "translate"
    /\ result.page_num = 0
    /\ ~result.tlb_hit
    /\ Len(tlb_history) > TLB_SIZE + 1
    /\ stats.page_faults = Cardinality(DOMAIN page_table)

C5_Empty ==
    (op = "reset") =>
        /\ \A c \in Counters : stats[c] = 0
        /\ DOMAIN stats = Counters
        /\ DOMAIN page_table = {}
        /\ DOMAIN tlb = {}
        /\ tlb_queue = <<>>
        /\ DOMAIN cache = 0 .. 63
        /\ \A i \in DOMAIN cache : ~cache[i].valid

C5_Twice ==
    (op = "reset" /\ op' = "reset") =>
        /\ stats' = stats
        /\ page_table' = page_table
        /\ tlb' = tlb
        /\ tlb_queue' = tlb_queue
        /\ cache' = cache

\* C5: reset leaves the six counters zero, the page table, the TLB and its
\* queue empty and all 64 cache lines invalid, and a second reset in a row
\* leaves the same state apart from the memory content.
C5_ResetClears == [](C5_Empty) /\ [][C5_Twice]_vars

C5_Witness ==
    /\ op = "reset"
    /\ main_memory.seed = 1
    /\ tlb_queue = <<>>
    /\ stats.total_accesses = 0

Range(q) == {q[i] : i \in 1 .. Len(q)}

C6_Tlb ==
    /\ Cardinality(DOMAIN tlb) <= 16
    /\ Range(tlb_queue) = DOMAIN tlb

\* C6: after any sequence of translate and reset calls the TLB holds at most
\* 16 entries and the pages in the FIFO queue are the keys of the TLB.
C6_TlbBounded == C6_Tlb

\* The TLB is full and has evicted.
C6_Witness ==
    /\ Cardinality(DOMAIN tlb) = 16
    /\ Len(tlb_history) > 16
    /\ Range(tlb_queue) = DOMAIN tlb

\* The place in the history of the last insertion of page x.
LastInserted(h, x) ==
    CHOOSE i \in 1 .. Len(h) :
        h[i] = x /\ \A j \in 1 .. Len(h) : h[j] = x => j <= i

C7_Evict ==
    LET p == result'.virtual_addr \div 256
    IN  (/\ TranslateStep
         /\ p \notin DOMAIN tlb
         /\ Cardinality(DOMAIN tlb) = 16) =>
            \E q \in DOMAIN tlb :
                /\ DOMAIN tlb' = ((DOMAIN tlb) \ {q}) \cup {p}
                /\ \A r \in (DOMAIN tlb) \ {q} : tlb'[r] = tlb[r]
                /\ \A r \in DOMAIN tlb :
                      LastInserted(tlb_history, q)
                          <= LastInserted(tlb_history, r)

C7_Seventeen ==
    (tlb_history = [i \in 1 .. 17 |-> i - 1]) =>
        (0 \notin DOMAIN tlb /\ DOMAIN tlb = 1 .. 16)

\* C7: a page inserted into a TLB of 16 entries evicts exactly one entry,
\* the one inserted earliest among those present; after the pages 0, 1,
\* ..., 16 were inserted in that order into an empty TLB, the TLB holds
\* exactly the pages 1 to 16.
C7_FifoEviction == [](C7_Seventeen) /\ [][C7_Evict]_vars

\* Page 16 was inserted, later page 0 again: two evictions.
C7_Witness ==
    /\ Len(tlb_history) = 18
    /\ SubSeq(tlb_history, 1, 17) = [i \in 1 .. 17 |-> i - 1]
    /\ tlb_history[18] = 0
    /\ DOMAIN tlb = {0} \cup (2 .. 16)

C8_Miss ==
    LET a == result'.physical_addr
        i == (a \div 8) % 64
        missing == ~cache[i].valid \/ cache[i].tag # a \div 512
    IN  TranslateStep =>
            /\ result'.cache_hit = ~missing
            /\ missing =>
                  /\ cache'[i].valid
                  /\ cache'[i].tag = a \div 512
                  /\ \A k \in 0 .. 7 :
                        cache'[i].data[k] =
                            MemRead(main_memory', (a \div 8) * 8 + k)
                  /\ result'.value = cache'[i].data[a % 8]

\* C8: a cache access to physical address a misses exactly when line
\* (a div 8) mod 64 is invalid or its tag is not a div 512; after a miss the
\* line is valid, has tag a div 512, holds the eight bytes of main memory at
\* the aligned block of a, and the byte returned is the one at offset
\* a mod 8 of the line.
C8_CacheFill == [][C8_Miss]_vars

\* A miss that replaced a valid line: fewer valid lines than misses.
C8_Witness ==
    /\ op = "translate"
    /\ ~result.cache_hit
    /\ result.physical_addr % 8 = 7
    /\ Cardinality({i \in DOMAIN cache : cache[i].valid}) < stats.cache_misses

C9_Addr ==
    (op = "translate") =>
        LET v == result.virtual_addr
        IN  /\ error = "none"
            /\ result.page_num = v \div 256
            /\ result.page_num * 256 + (v % 256) = v
            /\ result.frame_num \in 0 .. 255
            /\ result.physical_addr = result.frame_num * 256 + (v % 256)
            /\ result.physical_addr >= 0
            /\ result.physical_addr < 65536

\* C9: translate returns page_num = v div 256, with page_num * 256 +
\* v mod 256 = v, a frame number in 0 .. 255 and physical_addr =
\* frame_num * 256 + v mod 256, which lies in 0 .. 65535.
C9_AddressArithmetic == C9_Addr

\* The last byte of the last page, in the third frame.
C9_Witness ==
    /\ op = "translate"
    /\ result.virtual_addr = 65535
    /\ result.frame_num = 2
    /\ result.physical_addr = 767

C10_NoError ==
    /\ error = "none"
    /\ (op = "translate") =>
          /\ result # NoResult
          /\ result.value \in 0 .. 255

\* C10: no translate or reset call fails: no index into main memory or the
\* cache is out of range, the queue is not popped while empty, the page
\* popped is a key of the TLB, and every translate returns a result.
C10_NeverFails == C10_NoError

\* A translate that evicted from a full TLB and returned.
C10_Witness ==
    /\ op = "translate"
    /\ error = "none"
    /\ ~result.tlb_hit
    /\ Len(tlb_history) > 17
    /\ result.value \in 0 .. 255

\* The kinds of the entries of a log, in order.
Kinds(log) == [i \in 1 .. Len(log) |-> log[i][1]]

C11_Log ==
    LET log == result'.log
        p == result'.virtual_addr \div 256
        cacheKind == IF result'.cache_hit THEN "CACHE HIT" ELSE "CACHE MISS"
        tableKind == IF p \in DOMAIN page_table
                     THEN "PAGE TABLE HIT" ELSE "PAGE FAULT"
        faulted == stats'.page_faults = stats.page_faults + 1
    IN  TranslateStep =>
            /\ result'.tlb_hit = (p \in DOMAIN tlb)
            /\ result'.tlb_hit =>
                  /\ Kinds(log) = <<"TLB HIT", "Physical Address", cacheKind>>
                  /\ log[1] = <<"TLB HIT", p, result'.frame_num>>
                  /\ ~faulted
            /\ ~result'.tlb_hit =>
                  /\ Kinds(log) = <<"TLB MISS", tableKind, "TLB UPDATE",
                                    "Physical Address", cacheKind>>
                  /\ log[3] = <<"TLB UPDATE", p, result'.frame_num>>
                  /\ p \in DOMAIN tlb'
            /\ ("PAGE FAULT" \in Range(Kinds(log))) = faulted
            /\ log[Len(log) - 1] = <<"Physical Address", result'.physical_addr>>
            /\ log[Len(log)] = <<cacheKind, result'.value>>

\* C11: the log a translate returns lists the steps in pipeline order: the
\* TLB outcome, on a miss the page-table outcome (hit or fault) and then the
\* TLB update, the physical address, and the cache outcome last; the log of
\* a TLB hit has no page-table, fault or update entry, and a fault entry is
\* there exactly when the call raised page_faults.
C11_LogOrder == [][C11_Log]_vars

\* A TLB miss answered by the page table, after the page left the TLB.
C11_Witness ==
    /\ op = "translate"
    /\ Len(result.log) = 5
    /\ result.log[2][1] = "PAGE TABLE HIT"
    /\ result.log[5][1] = "CACHE MISS"
    /\ Len(tlb_history) > 17

\* The frames the page table maps to.
FramesInUse == {page_table[p] : p \in DOMAIN page_table}

\* Two pages of the page table share a frame.
Aliased == Cardinality(FramesInUse) < Cardinality(DOMAIN page_table)

\* C12 as claimed: translate calls can make more than NUM_PAGES pages fault,
\* so that a frame in use is given to another page; for that, once NUM_PAGES
\* pages have faulted some address must still be able to fault.
C12_FaultsBeyondAllFrames ==
    (Cardinality(DOMAIN page_table) >= NUM_PAGES) =>
        \E v \in 0 .. 65535 : PageNum(v) \notin DOMAIN page_table

\* C12, amended: the fault handler never gives out a frame in use: at most
\* NUM_PAGES (256) pages fault between two resets, and no two pages of the
\* page table map to the same frame.
C12_NoFrameReused ==
    /\ Len(faults) <= NUM_PAGES
    /\ Cardinality(DOMAIN page_table) <= NUM_PAGES
    /\ ~Aliased
    /\ FramesInUse = 0 .. (Cardinality(DOMAIN page_table) - 1)

\* Every page has faulted, and a translate made after that returned.
C12_Witness ==
    /\ op = "translate"
    /\ error = "none"
    /\ calls > NUM_PAGES
    /\ Len(faults) = NUM_PAGES
    /\ Cardinality(FramesInUse) = NUM_PAGES

ValidLines == {i \in DOMAIN cache : cache[i].valid}

C13_Coherent ==
    \A i \in ValidLines :
        \A k \in 0 .. 7 :
            cache[i].data[k] =
                MemRead(main_memory, cache[i].tag * 512 + i * 8 + k)

\* C13: every valid cache line holds the bytes main memory has now at the
\* block of its tag and index: data[k] = main_memory[tag*512 + index*8 + k].
C13_CacheAgreesWithMemory == C13_Coherent

\* The third page faulted while lines of two earlier frames were valid.
C13_Witness ==
    /\ op = "translate"
    /\ Len(faults) = 3
    /\ result.page_num = faults[3]
    /\ calls = 4
    /\ Cardinality(ValidLines) >= 3

C14_Subset ==
    \A p \in DOMAIN tlb :
        /\ p \in DOMAIN page_table
        /\ tlb[p] = page_table[p]

\* C14: every page of the TLB is in the page table, with the same frame.
C14_TlbWithinPageTable == C14_Subset

\* A full TLB that has evicted, holding page 1 in frame 0 again.
C14_Witness ==
    /\ Cardinality(DOMAIN tlb) = 16
    /\ Len(tlb_history) > 17
    /\ 1 \in DOMAIN tlb
    /\ tlb[1] = 0
    /\ tlb_queue[16] = 1

C15_Hit ==
    LET p == result'.virtual_addr \div 256
    IN  (TranslateStep /\ p \in DOMAIN tlb) =>
            /\ result'.tlb_hit
            /\ tlb' = tlb
            /\ tlb_queue' = tlb_queue
            /\ tlb_history' = tlb_history
            /\ page_table' = page_table
            /\ main_memory' = main_memory
            /\ stats'.tlb_misses = stats.tlb_misses
            /\ stats'.page_faults = stats.page_faults
            /\ stats'.tlb_hits = stats.tlb_hits + 1

\* The oldest page of a full TLB leaves at the next insertion, hit or not.
C15_OldestGoes ==
    LET p == result'.virtual_addr \div 256
    IN  (/\ TranslateStep
         /\ p \notin DOMAIN tlb
         /\ Cardinality(DOMAIN tlb) = 16) =>
            /\ Head(tlb_queue) \notin DOMAIN tlb'
            /\ tlb_queue' = Append(Tail(tlb_queue), p)

\* C15: a translate whose page is in the TLB leaves the TLB, the order of
\* its queue, the page table, main memory, tlb_misses and page_faults
\* unchanged, so replacement is FIFO: a page that was hit is still the one
\* evicted when it is the oldest inserted.
C15_FifoNotLru == [][C15_Hit /\ C15_OldestGoes]_vars

\* Page 0, the oldest of a full TLB, was just hit and stays at the front.
C15_Witness ==
    /\ op = "translate"
    /\ result.tlb_hit
    /\ result.page_num = 0
    /\ Cardinality(DOMAIN tlb) = 16
    /\ Head(tlb_queue) = 0

C16_Grows ==
    LET p == result'.virtual_addr \div 256
        added == (DOMAIN page_table') \ (DOMAIN page_table)
    IN  TranslateStep =>
            /\ \A q \in DOMAIN page_table :
                  /\ q \in DOMAIN page_table'
                  /\ page_table'[q] = page_table[q]
            /\ added \subseteq {p}
            /\ IF added = {} THEN faults' = faults
                             ELSE faults' = Append(faults, p)
            /\ (added # {}) = (p \notin DOMAIN page_table)
            /\ result'.frame_num = page_table'[p]

\* C16: between two resets a translate adds at most one entry to the page
\* table, only through the fault handler and only for its own absent page,
\* and removes or changes none; the frame returned for a page is the one
\* the page table holds, so it is the same at every translate of the page,
\* also after the page left the TLB.
C16_PageTableGrows == [][C16_Grows]_vars

\* Page 0 left the TLB and was translated again: no fault, frame unchanged.
C16_Witness ==
    /\ op = "translate"
    /\ result.page_num = 0
    /\ ~result.tlb_hit
    /\ result.log[2] = <<"PAGE TABLE HIT", page_table[0]>>
    /\ result.frame_num = page_table[0]
    /\ Len(faults) = 17

\* Cells around frame f and at the ends of the frames before it and of the
\* memory, where a write outside the frame would show.
CellsAround(f) ==
    {a \in ((f * 256 - 8) .. (f * 256 - 1))
            \cup ((f * 256 + 256) .. (f * 256 + 263))
            \cup {g * 256 : g \in 0 .. (f - 1)}
            \cup {g * 256 + 255 : g \in 0 .. (f - 1)}
            \cup {65535} :
        a >= 0 /\ a < 65536 /\ (a < f * 256 \/ a >= f * 256 + 256)}

C17_Fault ==
    LET p == result'.virtual_addr \div 256
        n == Cardinality(DOMAIN page_table)
        f == n % 256
        old == main_memory.loads
        new == main_memory'.loads
    IN  (TranslateStep /\ p \notin DOMAIN page_table) =>
            /\ result'.frame_num = f
            /\ DOMAIN page_table' = (DOMAIN page_table) \cup {p}
            /\ page_table'[p] = f
            /\ \A i \in 0 .. 255 :
                  MemRead(main_memory', f * 256 + i) = (p + i) % 256
            /\ \A a \in CellsAround(f) :
                  MemRead(main_memory', a) = MemRead(main_memory, a)
            /\ main_memory'.seed = main_memory.seed
            /\ Len(new) = Len(old) + 1
            /\ SubSeq(new, 1, Len(old)) = old
            /\ new[Len(new)].start_addr = f * 256
            /\ new[Len(new)].count = 256
            /\ stats'.page_faults = stats.page_faults + 1

\* C17: a fault for page p with n pages in the page table takes frame
\* f = n mod 256, leaves main_memory[f*256 + i] = (p + i) mod 256 for i in
\* 0 .. 255 and every cell outside that frame as it was, records p -> f in
\* the page table and raises page_faults by one.
C17_FaultLoadsFrame == [][C17_Fault]_vars

\* The last page faulted third, into frame 2, whose bytes wrap around.
C17_Witness ==
    /\ op = "translate"
    /\ faults = <<0, 1, 255>>
    /\ result.page_num = 255
    /\ page_table[255] = 2
    /\ MemRead(main_memory, 512) = 255
    /\ MemRead(main_memory, 513) = 0
    /\ stats.page_faults = 3

C18_Access ==
    LET a == result'.physical_addr
        index == (a \div 8) % 64
        p == result'.virtual_addr \div 256
    IN  TranslateStep =>
            /\ \A j \in (0 .. 63) \ {index} : cache'[j] = cache[j]
            /\ result'.cache_hit => cache' = cache
            /\ ~result'.cache_hit =>
                  /\ cache'[index].valid
                  /\ cache'[index].tag = a \div 512
            /\ OneOfTwo("cache_hits", "cache_misses")
            /\ result'.cache_hit =
                  (stats'.cache_hits = stats.cache_hits + 1)
            /\ main_memory'.seed = main_memory.seed
            /\ IF p \in DOMAIN page_table
               THEN main_memory' = main_memory
               ELSE /\ Len(main_memory'.loads) = Len(main_memory.loads) + 1
                    /\ SubSeq(main_memory'.loads, 1, Len(main_memory.loads))
                          = main_memory.loads

\* C18: the cache is direct-mapped: an access to physical address a can
\* change only line (a >> 3) & 63, a hit changes no line, the access leaves
\* main memory as the page-fault step left it, and it raises exactly one of
\* cache_hits / cache_misses by one.
C18_DirectMapped == [][C18_Access]_vars

\* Frame 2 maps to line 0 like frame 0 and has replaced it, while the line
\* of frame 1 is still there.
C18_Witness ==
    /\ op = "translate"
    /\ ~result.cache_hit
    /\ result.physical_addr = 512
    /\ cache[0].valid /\ cache[0].tag = 1
    /\ cache[32].valid /\ cache[32].tag = 0
    /\ stats.cache_misses = 3

C19_SameResult ==
    /\ gui.result.virtual_addr = result.virtual_addr
    /\ gui.result.physical_addr = result.physical_addr
    /\ gui.result.page_num = result.page_num
    /\ gui.result.frame_num = result.frame_num
    /\ gui.result.tlb_hit = result.tlb_hit
    /\ gui.result.cache_hit = result.cache_hit
    /\ gui.result.value = result.value

C19_SameState ==
    /\ gui.self.page_table = page_table
    /\ gui.self.tlb = tlb
    /\ gui.self.tlb_queue = tlb_queue
    /\ DOMAIN gui.self.cache = DOMAIN cache
    /\ \A i \in DOMAIN cache :
          /\ gui.self.cache[i].tag = cache[i].tag
          /\ gui.self.cache[i].valid = cache[i].valid
    /\ gui.self.stats = stats
    /\ gui.self.error = error

\* C19: the module and the class MemorySimulator, created side by side and
\* given the same translate and reset calls, return the same virtual_addr,
\* physical_addr, page_num, frame_num, tlb_hit, cache_hit and value for
\* every call and keep equal page table, TLB, FIFO queue, cache tags and
\* valid flags and counters after every call.
C19_SameBehaviour == C19_SameResult /\ C19_SameState

\* Both have run past a TLB eviction on different memory images, and the
\* last call came back a hit in both TLBs and both caches.
C19_Witness ==
    /\ op = "translate"
    /\ gui.self.main_memory.seed # main_memory.seed
    /\ Cardinality(DOMAIN gui.self.page_table) = 17
    /\ Len(gui.self.tlb_queue) = 16
    /\ gui.result.tlb_hit /\ result.tlb_hit
    /\ gui.result.cache_hit /\ result.cache_hit
    /\ gui.result.log[1][1] = "[check]TLB HIT"

\* Addresses translated from every reachable state: pages loaded and not,
\* at the ends of the page and of its first cache line.
C20_Addrs == {p * 256 + o : p \in {0, 2, 255}, o \in {0, 7, 8, 255}}

C20_Pattern(v) == ((v \div 256) + (v % 256)) % 256

\* The state of a run that made the same calls on the memory image of seed.
C20_OnImage(s, seed) == [s EXCEPT !.main_memory.seed = seed]

C20_Returned ==
    (op = "translate") => result.value = C20_Pattern(result.virtual_addr)

C20_NextCall ==
    \A v \in C20_Addrs :
        LET here == translate_address(State, v)
        IN  /\ here.result.value = C20_Pattern(v)
            /\ \A seed \in Seeds \ {main_memory.seed} :
                  LET there == translate_address(C20_OnImage(State, seed), v)
                  IN  /\ there.result = here.result
                      /\ there.state = C20_OnImage(here.state, seed)

\* C20: translate(v) returns value = ((v >> 8) + (v & 0xFF)) mod 256 from
\* every reachable state, on a cache hit and on a miss alike, and a run of
\* the same calls on another random memory image returns the same record
\* and is left in the same state but for the image.
C20_ValueIsPattern == C20_Returned /\ C20_NextCall

\* A cache hit on the last byte of the last page, returning 254 from a cell
\* whose random content was something else.
C20_Witness ==
    /\ op = "translate"
    /\ result.cache_hit
    /\ result.virtual_addr = 65535
    /\ result.value = 254
    /\ RandomByte(main_memory.seed, result.physical_addr) # 254

C21_Counts ==
    /\ stats.page_faults = Cardinality(DOMAIN page_table)
    /\ stats.page_faults = Cardinality(translated)
    /\ stats.page_faults <= 256
    /\ stats.page_faults <= stats.tlb_misses

C21_Frames ==
    /\ FramesInUse = 0 .. (stats.page_faults - 1)
    /\ Len(faults) = stats.page_faults
    /\ \A i \in 1 .. Len(faults) :
          /\ faults[i] \in DOMAIN page_table
          /\ page_table[faults[i]] = i - 1

\* C21: page_faults equals the number of page-table entries and the number
\* of distinct pages translated since creation or the last reset, is at most
\* 256 and at most tlb_misses, and the frames of the page table are exactly
\* 0 .. page_faults - 1, given out in the order the pages first faulted.
C21_FaultsCountPages == C21_Counts /\ C21_Frames

\* Page 1 faulted before page 0, all 256 pages have faulted, and a page the
\* TLB had evicted was translated again: a TLB miss without a fault.
C21_Witness ==
    /\ op = "translate"
    /\ stats.page_faults = 256
    /\ Cardinality(translated) = 256
    /\ stats.tlb_misses > stats.page_faults
    /\ stats.total_accesses > stats.tlb_misses
    /\ page_table[1] = 0
    /\ page_table[0] = 1

====
